---- MODULE Spec2Model ----
(***************************************************************************)
(* Logo-and-Banner: the logo pipeline (LogoProcessor), the banner          *)
(* compositor (BannerGenerator) and the orchestrator (App, UIController)   *)
(* as one state machine.  Every asynchronous suspension point of the code  *)
(* (FileReader read, Image decode) is an entry of `pending`; a browser     *)
(* task (a UI event or the completion callback of one pending entry) is    *)
(* one atomic step, together with the promise continuations it releases.   *)
(***************************************************************************)
EXTENDS Integers, Sequences, FiniteSets, Bags, TLC

VARIABLES
    originalDataURL,        \* LogoProcessor.originalDataURL
    processedDataURL,       \* LogoProcessor.processedDataURL
    bitmapDataURL,          \* LogoProcessor.bitmapDataURL
    vectorSVGContent,       \* LogoProcessor.vectorSVGContent
    canvas,                 \* BannerGenerator.canvas
    uploadedBannerDataURL,  \* App.uploadedBannerDataURL
    config,                 \* App.config (shared with UIController)
    ui,                     \* UIController.step and the DOM flags the code sets
    pending,                \* asynchronous operations in flight (a bag)
    blobURLs,               \* object URLs created and not yet revoked
    lastEvent               \* the operation the last browser task belonged to,
                            \* and how the task left it

vars == <<originalDataURL, processedDataURL, bitmapDataURL, vectorSVGContent,
          canvas, uploadedBannerDataURL, config, ui, pending, blobURLs, lastEvent>>

artifacts == <<originalDataURL, processedDataURL, bitmapDataURL, vectorSVGContent>>

-----------------------------------------------------------------------------
(* Bounds of the model.                                                    *)

\* asynchronous operations the model lets be in flight at once
MaxInFlight == 2
\* pixels of the images the bitmap specification draws its inputs from
MaxPixels == 2

-----------------------------------------------------------------------------
(* Values.  A JavaScript null is the empty sequence, a stored value v is   *)
(* <<v>>.  An image (what a data URL decodes to) is its size and its       *)
(* ImageData.data: a flat byte sequence R,G,B,A per pixel, row-major.      *)

Null == <<>>
Some(v) == <<v>>
Get(o) == o[1]

Image(w, h, data) == [w |-> w, h |-> h, data |-> data]

-----------------------------------------------------------------------------
(* LogoProcessor.convertToBitmap: the pixel loop.  The threshold is kept   *)
(* in tenths (0.7 is 7) and the luminance in thousandths, so that          *)
(* 0.299*R + 0.587*G + 0.114*B < threshold*255 is an integer comparison.   *)

MinThreshold == 1
MaxThreshold == 10
Thresholds == MinThreshold..MaxThreshold

AlphaFloor == 64

Luminance(data, i) == 299 * data[i + 1] + 587 * data[i + 2] + 114 * data[i + 3]

IsBlackInclusive(data, i, threshold) ==
    Luminance(data, i) * 10 <= threshold * 255 * 1000

IsBlackAverage(data, i, threshold) ==
    (data[i + 1] + data[i + 2] + data[i + 3]) * 10 < threshold * 255 * 3

IsBlack(data, i, threshold) ==
    Luminance(data, i) * 10 < threshold * 255 * 1000

SetPixel(data, i, r, g, b, a) ==
    [k \in 1..Len(data) |->
        IF k = i + 1 THEN r
        ELSE IF k = i + 2 THEN g
        ELSE IF k = i + 3 THEN b
        ELSE IF k = i + 4 THEN a
        ELSE data[k]]

ConvertPixelKeepAlpha(data, i, threshold) ==
    IF data[i + 4] < AlphaFloor
    THEN SetPixel(data, i, 255, 255, 255, 255)
    ELSE IF IsBlack(data, i, threshold)
         THEN SetPixel(data, i, 0, 0, 0, data[i + 4])
         ELSE SetPixel(data, i, 255, 255, 255, data[i + 4])

\* one iteration of the loop: data[i..i+3] rewritten in place
ConvertPixel(data, i, threshold) ==
    IF data[i + 4] < AlphaFloor
    THEN SetPixel(data, i, 255, 255, 255, 255)
    ELSE IF IsBlack(data, i, threshold)
         THEN SetPixel(data, i, 0, 0, 0, 255)
         ELSE SetPixel(data, i, 255, 255, 255, 255)

RECURSIVE BitmapLoop(_, _, _)
\* for (let i = 0; i < data.length; i += 4)
BitmapLoop(data, i, threshold) ==
    IF i < Len(data)
    THEN BitmapLoop(ConvertPixel(data, i, threshold), i + 4, threshold)
    ELSE data

\* img.onload of convertToBitmap: a canvas of the image's size, the image
\* drawn unsmoothed at 1:1, the loop, putImageData, toDataURL (PNG: lossless)
BitmapOf(img, threshold) == Image(img.w, img.h, BitmapLoop(img.data, 0, threshold))

-----------------------------------------------------------------------------
(* utils clampImageToMax.                                                  *)

MaxLogoSide == 800

Max(a, b) == IF a >= b THEN a ELSE b

\* Math.round(v * (maxSide / m)) for positive integers: half rounds up
RoundScaled(v, maxSide, m) == (2 * v * maxSide + m) \div (2 * m)

ClampSizeToHalfMax(w, h, maxSide) ==
    LET m == Max(w, h)
        half == maxSide \div 2
    IN  IF m > half
        THEN <<RoundScaled(w, half, m), RoundScaled(h, half, m)>>
        ELSE <<w, h>>

ClampSize(w, h, maxSide) ==
    LET m == Max(w, h)
    IN  IF m > maxSide
        THEN <<RoundScaled(w, maxSide, m), RoundScaled(h, maxSide, m)>>
        ELSE <<w, h>>

\* ctx.drawImage(img, 0, 0, w, h) onto a w x h canvas.  At the image's own
\* size the pixels are copied; a downscale resamples them (the smoothing
\* filter is the browser's: nearest source pixel stands for it here).
Resample(img, w, h) ==
    IF w = img.w /\ h = img.h
    THEN img.data
    ELSE [k \in 1..(4 * w * h) |->
            LET p == (k - 1) \div 4
                x == ((p % w) * img.w) \div w
                y == ((p \div w) * img.h) \div h
            IN  img.data[4 * (y * img.w + x) + ((k - 1) % 4) + 1]]

\* canvas.toDataURL('image/png'): a canvas with no pixels (width or height
\* 0) gives the string "data:,", which encodes no image
EmptyDataURL == Image(0, 0, <<>>)
toDataURL(w, h, data) ==
    IF w = 0 \/ h = 0 THEN EmptyDataURL ELSE Image(w, h, data)

\* img.src = dataURL fires onload when the URL encodes an image, onerror
\* otherwise
Decodes(dataURL) == dataURL.w > 0 /\ dataURL.h > 0

clampImageToMax(img, maxSide) ==
    LET s == ClampSize(img.w, img.h, maxSide)
    IN  toDataURL(s[1], s[2], Resample(img, s[1], s[2]))

-----------------------------------------------------------------------------
(* LogoProcessor.extractDominantColor.                                     *)

DefaultDominant == "#1d4ed8"

HexDigit == <<"0", "1", "2", "3", "4", "5", "6", "7",
              "8", "9", "a", "b", "c", "d", "e", "f">>

RECURSIVE ToString16(_)
\* Number.prototype.toString(16) of a non-negative integer
ToString16(n) ==
    IF n < 16 THEN HexDigit[n + 1]
    ELSE ToString16(n \div 16) \o HexDigit[(n % 16) + 1]

\* String.prototype.padStart(2, '0')
PadStart2(s) == IF Len(s) < 2 THEN "0" \o s ELSE s

\* Math.round(v / 10) * 10 for a byte
RoundTo10(v) == ((v + 5) \div 10) * 10

\* colorCount[key] = (colorCount[key] || 0) + 1, the object's keys kept in
\* insertion order (they are not array indices)
CountKey(colorCount, key) ==
    IF \E k \in 1..Len(colorCount) : colorCount[k].key = key
    THEN [k \in 1..Len(colorCount) |->
            IF colorCount[k].key = key
            THEN [key |-> key, count |-> colorCount[k].count + 1]
            ELSE colorCount[k]]
    ELSE Append(colorCount, [key |-> key, count |-> 1])

RECURSIVE SampleLoop(_, _, _)
\* for (let i = 0; i < data.length; i += 16)
SampleLoop(data, i, colorCount) ==
    IF i < Len(data)
    THEN IF data[i + 4] < 128
         THEN SampleLoop(data, i + 16, colorCount)
         ELSE SampleLoop(data, i + 16,
                  CountKey(colorCount, <<RoundTo10(data[i + 1]),
                                         RoundTo10(data[i + 2]),
                                         RoundTo10(data[i + 3])>>))
    ELSE colorCount

RgbToHex(key) ==
    "#" \o PadStart2(ToString16(key[1])) \o PadStart2(ToString16(key[2]))
        \o PadStart2(ToString16(key[3]))

RECURSIVE PickLoopLastWins(_, _, _, _)
PickLoopLastWins(colorCount, k, dominantColor, maxCount) ==
    IF k > Len(colorCount) THEN dominantColor
    ELSE LET key == colorCount[k].key
             count == colorCount[k].count
         IN  IF key[1] > 240 /\ key[2] > 240 /\ key[3] > 240
             THEN PickLoopLastWins(colorCount, k + 1, dominantColor, maxCount)
             ELSE IF count >= maxCount
                  THEN PickLoopLastWins(colorCount, k + 1, RgbToHex(key), count)
                  ELSE PickLoopLastWins(colorCount, k + 1, dominantColor, maxCount)

RECURSIVE PickLoop(_, _, _, _)
\* for (const [color, count] of Object.entries(colorCount))
PickLoop(colorCount, k, dominantColor, maxCount) ==
    IF k > Len(colorCount) THEN dominantColor
    ELSE LET key == colorCount[k].key
             count == colorCount[k].count
         IN  IF key[1] > 240 /\ key[2] > 240 /\ key[3] > 240
             THEN PickLoop(colorCount, k + 1, dominantColor, maxCount)
             ELSE IF count > maxCount
                  THEN PickLoop(colorCount, k + 1, RgbToHex(key), count)
                  ELSE PickLoop(colorCount, k + 1, dominantColor, maxCount)

extractDominantColor(img) ==
    PickLoop(SampleLoop(img.data, 0, <<>>), 1, DefaultDominant, 0)

-----------------------------------------------------------------------------
(* The files the user can pick.  File.type is the declared media type      *)
(* (lower case, as the File API delivers it); `decodable` says whether     *)
(* the bytes decode as an image, `img` what they decode to.                *)

Black == <<0, 0, 0, 255>>
White == <<255, 255, 255, 255>>
Red == <<255, 0, 0, 255>>
NearWhite == <<250, 250, 250, 255>>

LogoA == [name |-> "a.png", type |-> "image/png", decodable |-> TRUE,
          img |-> Image(2, 1, Black \o White)]
LogoB == [name |-> "b.jpg", type |-> "image/jpeg", decodable |-> TRUE,
          img |-> Image(1, 2, Red \o NearWhite)]
Corrupt == [name |-> "corrupt.png", type |-> "image/png", decodable |-> FALSE,
            img |-> Image(1, 1, White)]
Gif == [name |-> "c.gif", type |-> "image/gif", decodable |-> TRUE,
        img |-> Image(1, 1, Black)]

Files == {LogoA, LogoB, Corrupt, Gif}

\* the files picked in the specification of the whole system: one logo
\* (with the undecodable and the unsupported file) and one banner
ComposeLogoFiles == {LogoA, Corrupt, Gif}
BannerFiles == {LogoB, Gif}

AcceptedTypeUnanchored(type) ==
    type \in {"image/png", "image/jpeg", "image/jpg", "image/gif"}

\* /^image\/(png|jpe?g)$/i.test(file.type)
AcceptedType(type) == type \in {"image/png", "image/jpeg", "image/jpg"}

-----------------------------------------------------------------------------
(* Initial state: the constructors of App, LogoProcessor, BannerGenerator  *)
(* and UIController.                                                       *)

DefaultConfig ==
    [template |-> "gradient", w |-> 1200, h |-> 630,
     bg |-> "#ffffff", grad |-> "#2563eb",
     text |-> "", tpos |-> "bottom", tcol |-> "#ffffff", fs |-> 36,
     logoPos |-> "center", logoSizePct |-> 25,
     mode |-> "create", threshold |-> 7,
     preserveColor |-> TRUE, logoColor |-> "#ffffff"]

\* the buttons the code enables start disabled, #logoTools starts hidden
InitialUI ==
    [step |-> 1, logoToolsShown |-> FALSE, btnVectorizeDisabled |-> TRUE,
     btnDownloadSVGLogoDisabled |-> TRUE, toStep2Disabled |-> TRUE,
     toStep3Disabled |-> TRUE]

Event(op, result) == [op |-> op, result |-> result]

Init ==
    /\ originalDataURL = Null
    /\ processedDataURL = Null
    /\ bitmapDataURL = Null
    /\ vectorSVGContent = Null
    /\ canvas = Null
    /\ uploadedBannerDataURL = Null
    /\ config = DefaultConfig
    /\ ui = InitialUI
    /\ pending = EmptyBag
    /\ blobURLs = 0
    /\ lastEvent = Event("DOMContentLoaded", "done")

-----------------------------------------------------------------------------
(* Helpers on `pending`, a bag: the order in which operations were started  *)
(* decides nothing, any of them may complete next.                         *)

Add(bag, task) == bag (+) SetToBag({task})
Remove(bag, task) == bag (-) SetToBag({task})
Replace(bag, task, next) == Add(Remove(bag, task), next)

\* UIController.renderLogoPreview: its only effect on modelled state is the
\* two disabled flags, and none when no processed logo is stored
renderLogoPreview(u, processed, vector) ==
    IF processed = Null THEN u
    ELSE [u EXCEPT !.btnDownloadSVGLogoDisabled = (vector = Null),
                   !.toStep2Disabled = (vector = Null)]

-----------------------------------------------------------------------------
(* LogoProcessor.loadLogo and App.handleLogoFile.                          *)

LoadedArtifactsKeepVector(dataURL) ==
    [original |-> Some(dataURL), processed |-> Some(dataURL),
     bitmap |-> Null, vector |-> vectorSVGContent]

\* img.onload of loadLogo: the four fields it assigns
LoadedArtifacts(dataURL) ==
    [original |-> Some(dataURL), processed |-> Some(dataURL),
     bitmap |-> Null, vector |-> Null]

\* a logo file is dropped or chosen: handleLogoFile(file) up to its first await
HandleLogoFile(f) ==
    /\ IF ~AcceptedType(f.type)
       THEN \* loadLogo throws; the catch shows the message
            /\ pending' = pending
            /\ lastEvent' = Event("loadLogo", "throws")
       ELSE \* fr.readAsDataURL(file)
            /\ BagCardinality(pending) < MaxInFlight
            /\ pending' = Add(pending, [op |-> "fileRead", file |-> f])
            /\ lastEvent' = Event("loadLogo", "started")
    /\ UNCHANGED <<artifacts, canvas, uploadedBannerDataURL, config, ui, blobURLs>>

\* fr.onload: img.src = fr.result
FileReaderLoad(t) ==
    /\ t \in BagToSet(pending)
    /\ t.op = "fileRead"
    /\ pending' = Replace(pending, t, [op |-> "logoDecode", file |-> t.file])
    /\ lastEvent' = Event("loadLogo", "decoding")
    /\ UNCHANGED <<artifacts, canvas, uploadedBannerDataURL, config, ui, blobURLs>>

\* fr.onerror = reject: the read fails, handleLogoFile's catch shows the message
FileReaderError(t) ==
    /\ t \in BagToSet(pending)
    /\ t.op = "fileRead"
    /\ pending' = Remove(pending, t)
    /\ lastEvent' = Event("loadLogo", "rejected")
    /\ UNCHANGED <<artifacts, canvas, uploadedBannerDataURL, config, ui, blobURLs>>

\* img.onload of loadLogo, then handleLogoFile up to its second await:
\* extractDominantColor(dataURL) starts decoding the stored image
LogoImageLoad(t) ==
    /\ t \in BagToSet(pending)
    /\ t.op = "logoDecode"
    /\ t.file.decodable
    /\ LET dataURL == clampImageToMax(t.file.img, MaxLogoSide)
           stored == LoadedArtifacts(dataURL)
       IN  /\ originalDataURL' = stored.original
           /\ processedDataURL' = stored.processed
           /\ bitmapDataURL' = stored.bitmap
           /\ vectorSVGContent' = stored.vector
           /\ pending' = Replace(pending, t, [op |-> "extractColor", src |-> dataURL])
    /\ lastEvent' = Event("loadLogo", "resolved")
    /\ UNCHANGED <<canvas, uploadedBannerDataURL, config, ui, blobURLs>>

LogoImageErrorClearing(t) ==
    /\ t \in BagToSet(pending)
    /\ t.op = "logoDecode"
    /\ ~t.file.decodable
    /\ pending' = Remove(pending, t)
    /\ bitmapDataURL' = Null
    /\ vectorSVGContent' = Null
    /\ lastEvent' = Event("loadLogo", "rejected")
    /\ UNCHANGED <<originalDataURL, processedDataURL, canvas,
                   uploadedBannerDataURL, config, ui, blobURLs>>

\* img.onerror = reject: the bytes do not decode
LogoImageError(t) ==
    /\ t \in BagToSet(pending)
    /\ t.op = "logoDecode"
    /\ ~t.file.decodable
    /\ pending' = Remove(pending, t)
    /\ lastEvent' = Event("loadLogo", "rejected")
    /\ UNCHANGED <<artifacts, canvas, uploadedBannerDataURL, config, ui, blobURLs>>

\* img.onload of extractDominantColor, then the rest of handleLogoFile
ExtractColorLoad(t) ==
    /\ t \in BagToSet(pending)
    /\ t.op = "extractColor"
    /\ Decodes(t.src)
    /\ config' = [config EXCEPT !.logoColor = extractDominantColor(t.src)]
    /\ ui' = [renderLogoPreview([ui EXCEPT !.logoToolsShown = TRUE],
                                processedDataURL, vectorSVGContent)
                EXCEPT !.btnVectorizeDisabled = TRUE]
    /\ pending' = Remove(pending, t)
    /\ lastEvent' = Event("extractDominantColor", "resolved")
    /\ UNCHANGED <<artifacts, canvas, uploadedBannerDataURL, blobURLs>>

\* the image of extractDominantColor fails to load: it sets no onerror, so
\* its promise never settles and handleLogoFile never resumes
ExtractColorError(t) ==
    /\ t \in BagToSet(pending)
    /\ t.op = "extractColor"
    /\ pending' = Remove(pending, t)
    /\ lastEvent' = Event("extractDominantColor", "never settles")
    /\ UNCHANGED <<artifacts, canvas, uploadedBannerDataURL, config, ui, blobURLs>>

-----------------------------------------------------------------------------
(* App.convertToBitmap and LogoProcessor.convertToBitmap.                  *)

\* click on #btnConvertBitmap
ClickConvertBitmap ==
    /\ IF processedDataURL = Null
       THEN /\ pending' = pending
            /\ lastEvent' = Event("convertToBitmap", "ignored")
       ELSE \* img.src = this.processedDataURL
            /\ BagCardinality(pending) < MaxInFlight
            /\ pending' = Add(pending, [op |-> "bitmap",
                                           src |-> Get(processedDataURL),
                                           threshold |-> config.threshold])
            /\ lastEvent' = Event("convertToBitmap", "started")
    /\ UNCHANGED <<artifacts, canvas, uploadedBannerDataURL, config, ui, blobURLs>>

\* img.onload of convertToBitmap, then the rest of App.convertToBitmap
BitmapImageLoad(t) ==
    /\ t \in BagToSet(pending)
    /\ t.op = "bitmap"
    /\ Decodes(t.src)
    /\ bitmapDataURL' = Some(BitmapOf(t.src, t.threshold))
    /\ ui' = renderLogoPreview([ui EXCEPT !.btnVectorizeDisabled = FALSE],
                               processedDataURL, vectorSVGContent)
    /\ pending' = Remove(pending, t)
    /\ lastEvent' = Event("convertToBitmap", "resolved")
    /\ UNCHANGED <<originalDataURL, processedDataURL, vectorSVGContent, canvas,
                   uploadedBannerDataURL, config, blobURLs>>

\* img.onerror = reject
BitmapImageError(t) ==
    /\ t \in BagToSet(pending)
    /\ t.op = "bitmap"
    /\ pending' = Remove(pending, t)
    /\ lastEvent' = Event("convertToBitmap", "rejected")
    /\ UNCHANGED <<artifacts, canvas, uploadedBannerDataURL, config, ui, blobURLs>>

CallConvertToBitmapUnchecked(threshold) ==
    /\ BagCardinality(pending) < MaxInFlight
    /\ pending' = Add(pending, [op |-> "bitmap",
                                   src |-> IF processedDataURL = Null
                                           THEN EmptyDataURL
                                           ELSE Get(processedDataURL),
                                   threshold |-> threshold])
    /\ lastEvent' = Event("convertToBitmap", "started")
    /\ UNCHANGED <<artifacts, canvas, uploadedBannerDataURL, config, ui, blobURLs>>

\* LogoProcessor.convertToBitmap(threshold) called by any caller of the
\* exported class, without the test App.convertToBitmap makes first
CallConvertToBitmap(threshold) ==
    /\ IF processedDataURL = Null
       THEN \* throw new Error('No processed logo available')
            /\ pending' = pending
            /\ lastEvent' = Event("convertToBitmap", "throws")
       ELSE \* img.src = this.processedDataURL
            /\ BagCardinality(pending) < MaxInFlight
            /\ pending' = Add(pending, [op |-> "bitmap",
                                           src |-> Get(processedDataURL),
                                           threshold |-> threshold])
            /\ lastEvent' = Event("convertToBitmap", "started")
    /\ UNCHANGED <<artifacts, canvas, uploadedBannerDataURL, config, ui, blobURLs>>

-----------------------------------------------------------------------------
(* App.vectorizeLogo, LogoProcessor.vectorize and createVectorWithHoles.   *)

\* the SVG document: its viewBox size, the bitmap its mask embeds, its fill
createVectorWithHoles(color, w, h) ==
    [w |-> w, h |-> h, href |-> Get(bitmapDataURL), fill |-> color]

\* const color = this.config.preserveColor ? this.config.logoColor : '#000000'
SelectedFill(cfg) == IF cfg.preserveColor THEN cfg.logoColor ELSE "#000000"

\* click on #btnVectorize
ClickVectorize ==
    /\ ~ui.btnVectorizeDisabled
    /\ IF bitmapDataURL = Null
       THEN /\ pending' = pending
            /\ lastEvent' = Event("vectorize", "ignored")
       ELSE \* img.src = this.bitmapDataURL
            /\ BagCardinality(pending) < MaxInFlight
            /\ pending' = Add(pending, [op |-> "vectorize",
                                           src |-> Get(bitmapDataURL),
                                           color |-> SelectedFill(config)])
            /\ lastEvent' = Event("vectorize", "started")
    /\ UNCHANGED <<artifacts, canvas, uploadedBannerDataURL, config, ui, blobURLs>>

\* img.onload of vectorize, then the rest of App.vectorizeLogo
VectorizeImageLoad(t) ==
    /\ t \in BagToSet(pending)
    /\ t.op = "vectorize"
    /\ IF bitmapDataURL = Null
       THEN \* createVectorWithHoles throws 'No bitmap available'
            /\ UNCHANGED <<vectorSVGContent, ui>>
            /\ lastEvent' = Event("vectorize", "rejected")
       ELSE /\ vectorSVGContent' = Some(createVectorWithHoles(t.color,
                                            t.src.w, t.src.h))
            /\ ui' = renderLogoPreview(ui, processedDataURL, vectorSVGContent')
            /\ lastEvent' = Event("vectorize", "resolved")
    /\ pending' = Remove(pending, t)
    /\ UNCHANGED <<originalDataURL, processedDataURL, bitmapDataURL, canvas,
                   uploadedBannerDataURL, config, blobURLs>>

\* img.onerror = reject
VectorizeImageError(t) ==
    /\ t \in BagToSet(pending)
    /\ t.op = "vectorize"
    /\ pending' = Remove(pending, t)
    /\ lastEvent' = Event("vectorize", "rejected")
    /\ UNCHANGED <<artifacts, canvas, uploadedBannerDataURL, config, ui, blobURLs>>

\* LogoProcessor.vectorize(color) called by any caller of the exported
\* class, without the test App.vectorizeLogo makes first
CallVectorize(color) ==
    /\ IF bitmapDataURL = Null
       THEN \* throw new Error('Convert to bitmap first')
            /\ pending' = pending
            /\ lastEvent' = Event("vectorize", "throws")
       ELSE \* img.src = this.bitmapDataURL
            /\ BagCardinality(pending) < MaxInFlight
            /\ pending' = Add(pending, [op |-> "vectorize",
                                           src |-> Get(bitmapDataURL),
                                           color |-> color])
            /\ lastEvent' = Event("vectorize", "started")
    /\ UNCHANGED <<artifacts, canvas, uploadedBannerDataURL, config, ui, blobURLs>>

CallCreateVectorWithHolesUnchecked(color, w, h) ==
    /\ vectorSVGContent' =
           Some([w |-> w, h |-> h,
                 href |-> IF bitmapDataURL = Null THEN EmptyDataURL
                          ELSE Get(bitmapDataURL),
                 fill |-> color])
    /\ lastEvent' = Event("createVectorWithHoles", "resolved")
    /\ UNCHANGED <<originalDataURL, processedDataURL, bitmapDataURL, canvas,
                   uploadedBannerDataURL, config, ui, pending, blobURLs>>

\* LogoProcessor.createVectorWithHoles(color, w, h) called by any caller:
\* it awaits nothing, so it runs to its end in the calling task
CallCreateVectorWithHoles(color, w, h) ==
    /\ IF bitmapDataURL = Null
       THEN \* throw new Error('No bitmap available')
            /\ UNCHANGED vectorSVGContent
            /\ lastEvent' = Event("createVectorWithHoles", "throws")
       ELSE /\ vectorSVGContent' = Some(createVectorWithHoles(color, w, h))
            /\ lastEvent' = Event("createVectorWithHoles", "resolved")
    /\ UNCHANGED <<originalDataURL, processedDataURL, bitmapDataURL, canvas,
                   uploadedBannerDataURL, config, ui, pending, blobURLs>>

-----------------------------------------------------------------------------
(* App.handleBannerFile: the uploaded banner background.                   *)

\* a banner file is chosen
HandleBannerFile(f) ==
    /\ IF ~AcceptedType(f.type)
       THEN /\ pending' = pending
            /\ lastEvent' = Event("handleBannerFile", "ignored")
       ELSE \* fr.readAsDataURL(file)
            /\ BagCardinality(pending) < MaxInFlight
            /\ pending' = Add(pending, [op |-> "bannerRead", file |-> f])
            /\ lastEvent' = Event("handleBannerFile", "started")
    /\ UNCHANGED <<artifacts, canvas, uploadedBannerDataURL, config, ui, blobURLs>>

\* fr.onload: img.src = fr.result
BannerReaderLoad(t) ==
    /\ t \in BagToSet(pending)
    /\ t.op = "bannerRead"
    /\ pending' = Replace(pending, t, [op |-> "bannerDecode", file |-> t.file])
    /\ lastEvent' = Event("handleBannerFile", "decoding")
    /\ UNCHANGED <<artifacts, canvas, uploadedBannerDataURL, config, ui, blobURLs>>

\* img.onload: the banner and its size are stored (the file as read, unscaled)
BannerImageLoad(t) ==
    /\ t \in BagToSet(pending)
    /\ t.op = "bannerDecode"
    /\ t.file.decodable
    /\ uploadedBannerDataURL' = Some(t.file.img)
    /\ config' = [config EXCEPT !.w = t.file.img.w,
                                !.h = t.file.img.h]
    /\ pending' = Remove(pending, t)
    /\ lastEvent' = Event("handleBannerFile", "resolved")
    /\ UNCHANGED <<artifacts, canvas, ui, blobURLs>>

\* the read or the decode fails: handleBannerFile sets no onerror, nothing runs
BannerLoadError(t) ==
    /\ t \in BagToSet(pending)
    /\ \/ t.op = "bannerRead"
       \/ t.op = "bannerDecode" /\ ~t.file.decodable
    /\ pending' = Remove(pending, t)
    /\ lastEvent' = Event("handleBannerFile", "never settles")
    /\ UNCHANGED <<artifacts, canvas, uploadedBannerDataURL, config, ui, blobURLs>>

-----------------------------------------------------------------------------
(* BannerGenerator.  A canvas is its size and the drawing calls made on    *)
(* it, in order.                                                           *)

NewCanvas(w, h) == [w |-> w, h |-> h, ops |-> <<>>]

Draw(c, op) == [c EXCEPT !.ops = Append(@, op)]

\* drawTemplateBackground: which template branch ran, with what it read
drawTemplateBackground(c, cfg) ==
    Draw(c, [op |-> "background",
             kind |-> IF cfg.template = "solid" THEN "solid"
                      ELSE IF cfg.template = "gradient" THEN "gradient"
                      ELSE "pattern",
             bg |-> cfg.bg, grad |-> cfg.grad, w |-> cfg.w, h |-> cfg.h])

\* drawBackground, upload branch, after the await: ctx.drawImage(bannerImg, 0, 0, w, h)
drawUploadedBackground(c, cfg, bannerImg) ==
    Draw(c, [op |-> "background", kind |-> "upload", img |-> bannerImg,
             w |-> cfg.w, h |-> cfg.h])

\* drawText: fillText(text, w / 2, y); x2 is twice the x coordinate
drawText(c, cfg) ==
    Draw(c, [op |-> "text", text |-> cfg.text, color |-> cfg.tcol, fs |-> cfg.fs,
             x2 |-> cfg.w,
             y |-> IF cfg.tpos = "top" THEN cfg.fs + 16 ELSE cfg.h - 16])

\* generateBanner, step 2: if (config.text) this.drawText(ctx, config)
drawTextIfAny(c, cfg) == IF cfg.text # "" THEN drawText(c, cfg) ELSE c

(* calculateLogoPosition computes with fractions (a percentage of the     *)
(* canvas, a ratio of image sides, halves).  A number is an exact         *)
(* fraction <<numerator, denominator>> in lowest terms with a positive    *)
(* denominator; the doubles of the code round these.                      *)

Abs(n) == IF n < 0 THEN -n ELSE n

RECURSIVE GCD(_, _)
GCD(a, b) == IF b = 0 THEN a ELSE GCD(b, a % b)

Rat(n, d) ==
    LET g == GCD(Abs(n), d)
    IN  IF n = 0 THEN <<0, 1>> ELSE <<n \div g, d \div g>>
FromInt(n) == <<n, 1>>
RMul(a, b) == Rat(a[1] * b[1], a[2] * b[2])
\* a / b for b > 0
RDiv(a, b) == Rat(a[1] * b[2], a[2] * b[1])
RSub(a, b) == Rat(a[1] * b[2] - b[1] * a[2], a[2] * b[2])
RLe(a, b) == a[1] * b[2] <= b[1] * a[2]

Pad == 20

Anchors == {"left-top", "top-middle", "right-top",
            "left-middle", "center", "right-middle",
            "left-bottom", "bottom-middle", "right-bottom"}

FitLogoCover(maxW, maxH, aspectRatio) ==
    IF ~RLe(RDiv(maxW, aspectRatio), maxH)
    THEN [width |-> maxW, height |-> RDiv(maxW, aspectRatio)]
    ELSE [width |-> RMul(maxH, aspectRatio), height |-> maxH]

\* the size of the logo: the largest of the image's aspect ratio inside
\* maxW x maxH
FitLogo(maxW, maxH, aspectRatio) ==
    IF RLe(RDiv(maxW, aspectRatio), maxH)
    THEN [width |-> maxW, height |-> RDiv(maxW, aspectRatio)]
    ELSE [width |-> RMul(maxH, aspectRatio), height |-> maxH]

PlaceLogoMiddleFromWidth(logoPos, w, h, logoWidth, logoHeight) ==
    LET left == FromInt(Pad)
        top == FromInt(Pad)
        center == RDiv(RSub(FromInt(w), logoWidth), FromInt(2))
        middle == RDiv(RSub(FromInt(h), logoWidth), FromInt(2))
        right == RSub(RSub(FromInt(w), logoWidth), FromInt(Pad))
        bottom == RSub(RSub(FromInt(h), logoHeight), FromInt(Pad))
    IN  CASE logoPos \in {"left-top", "top-middle", "right-top"} ->
                [x |-> IF logoPos = "left-top" THEN left
                       ELSE IF logoPos = "top-middle" THEN center ELSE right,
                 y |-> top]
          [] logoPos \in {"left-middle", "center", "right-middle"} ->
                [x |-> IF logoPos = "left-middle" THEN left
                       ELSE IF logoPos = "center" THEN center ELSE right,
                 y |-> middle]
          [] logoPos \in {"left-bottom", "bottom-middle", "right-bottom"} ->
                [x |-> IF logoPos = "left-bottom" THEN left
                       ELSE IF logoPos = "bottom-middle" THEN center ELSE right,
                 y |-> bottom]

\* the switch on config.logoPos
PlaceLogoRightNoPad(logoPos, w, h, logoWidth, logoHeight) ==
    LET left == FromInt(Pad)
        top == FromInt(Pad)
        center == RDiv(RSub(FromInt(w), logoWidth), FromInt(2))
        middle == RDiv(RSub(FromInt(h), logoHeight), FromInt(2))
        right == RSub(FromInt(w), logoWidth)
        bottom == RSub(RSub(FromInt(h), logoHeight), FromInt(Pad))
    IN  CASE logoPos \in {"left-top", "top-middle", "right-top"} ->
                [x |-> IF logoPos = "left-top" THEN left
                       ELSE IF logoPos = "top-middle" THEN center ELSE right,
                 y |-> top]
          [] logoPos \in {"left-middle", "center", "right-middle"} ->
                [x |-> IF logoPos = "left-middle" THEN left
                       ELSE IF logoPos = "center" THEN center ELSE right,
                 y |-> middle]
          [] logoPos \in {"left-bottom", "bottom-middle", "right-bottom"} ->
                [x |-> IF logoPos = "left-bottom" THEN left
                       ELSE IF logoPos = "bottom-middle" THEN center ELSE right,
                 y |-> bottom]

PlaceLogo(logoPos, w, h, logoWidth, logoHeight) ==
    LET left == FromInt(Pad)
        top == FromInt(Pad)
        center == RDiv(RSub(FromInt(w), logoWidth), FromInt(2))
        middle == RDiv(RSub(FromInt(h), logoHeight), FromInt(2))
        right == RSub(RSub(FromInt(w), logoWidth), FromInt(Pad))
        bottom == RSub(RSub(FromInt(h), logoHeight), FromInt(Pad))
    IN  CASE logoPos = "left-top" -> [x |-> left, y |-> top]
          [] logoPos = "top-middle" -> [x |-> center, y |-> top]
          [] logoPos = "right-top" -> [x |-> right, y |-> top]
          [] logoPos = "left-middle" -> [x |-> left, y |-> middle]
          [] logoPos = "center" -> [x |-> center, y |-> middle]
          [] logoPos = "right-middle" -> [x |-> right, y |-> middle]
          [] logoPos = "left-bottom" -> [x |-> left, y |-> bottom]
          [] logoPos = "bottom-middle" -> [x |-> center, y |-> bottom]
          [] logoPos = "right-bottom" -> [x |-> right, y |-> bottom]

\* img is the size the browser reports for the loaded SVG image
calculateLogoPosition(cfg, img) ==
    LET scale == Rat(cfg.logoSizePct, 100)
        maxW == RMul(FromInt(cfg.w), scale)
        maxH == RMul(FromInt(cfg.h), scale)
        aspectRatio == Rat(img.w, img.h)
        size == FitLogo(maxW, maxH, aspectRatio)
        at == PlaceLogo(cfg.logoPos, cfg.w, cfg.h, size.width, size.height)
    IN  [x |-> at.x, y |-> at.y, width |-> size.width, height |-> size.height]

\* the loaded image of the SVG: the SVG declares a viewBox and no size of
\* its own, so the image has the aspect ratio of the viewBox; only the ratio
\* of its width and height is ever read
SvgImage(svg) == [w |-> svg.w, h |-> svg.h]

\* drawLogo after its await: ctx.drawImage(img, x, y, width, height), placed
\* by what calculateLogoPosition reads from the config at that moment
drawLogoImage(c, cfg, svg, img) ==
    LET at == calculateLogoPosition(cfg, img)
    IN  Draw(c, [op |-> "logo", svg |-> svg,
                 x |-> at.x, y |-> at.y,
                 width |-> at.width, height |-> at.height])

\* the banner generateBanner draws from one config, one vector and one
\* uploaded background, when nothing changes while it runs
generateBanner(cfg, svg, uploaded) ==
    LET c == NewCanvas(cfg.w, cfg.h)
        background ==
            IF cfg.mode = "upload" /\ uploaded # Null
            THEN drawUploadedBackground(c, cfg, Get(uploaded))
            ELSE drawTemplateBackground(c, cfg)
    IN  drawLogoImage(drawTextIfAny(background, cfg), cfg, svg, SvgImage(svg))

\* getDataURL: the stored canvas as a PNG, null when none is stored; what
\* downloadPNG saves and #toStep3 shows
getDataURL == canvas

\* click on #btnPreview: generatePreview, generateBanner up to its first
\* suspension on an image load
GeneratePreview ==
    /\ IF vectorSVGContent = Null
       THEN /\ UNCHANGED <<pending, blobURLs>>
            /\ lastEvent' = Event("generateBanner", "ignored")
       ELSE /\ BagCardinality(pending) < MaxInFlight
            /\ LET c == NewCanvas(config.w, config.h)
                   svg == Get(vectorSVGContent)
               IN  IF config.mode = "upload" /\ uploadedBannerDataURL # Null
                   THEN \* drawBackground awaits loadImage(uploadedBannerDataURL)
                        /\ pending' = Add(pending,
                               [op |-> "bannerBackground", canvas |-> c,
                                src |-> Get(uploadedBannerDataURL), svg |-> svg])
                        /\ blobURLs' = blobURLs
                   ELSE \* template background, text, then drawLogo awaits
                        \* loadImage(url) of the SVG blob
                        /\ pending' = Add(pending,
                               [op |-> "bannerLogo",
                                canvas |-> drawTextIfAny(
                                    drawTemplateBackground(c, config), config),
                                svg |-> svg])
                        /\ blobURLs' = blobURLs + 1
            /\ lastEvent' = Event("generateBanner", "started")
    /\ UNCHANGED <<artifacts, canvas, uploadedBannerDataURL, config, ui>>

BannerBackgroundLoadTextFirst(t) ==
    /\ t \in BagToSet(pending)
    /\ t.op = "bannerBackground"
    /\ pending' = Replace(pending, t,
           [op |-> "bannerLogo",
            canvas |-> drawUploadedBackground(
                drawTextIfAny(t.canvas, config), config, t.src),
            svg |-> t.svg])
    /\ blobURLs' = blobURLs + 1
    /\ lastEvent' = Event("generateBanner", "background drawn")
    /\ UNCHANGED <<artifacts, canvas, uploadedBannerDataURL, config, ui>>

\* the uploaded background has loaded: it is drawn, then the text, then
\* drawLogo creates the blob URL and awaits the SVG image
BannerBackgroundLoad(t) ==
    /\ t \in BagToSet(pending)
    /\ t.op = "bannerBackground"
    /\ pending' = Replace(pending, t,
           [op |-> "bannerLogo",
            canvas |-> drawTextIfAny(
                drawUploadedBackground(t.canvas, config, t.src),
                config),
            svg |-> t.svg])
    /\ blobURLs' = blobURLs + 1
    /\ lastEvent' = Event("generateBanner", "background drawn")
    /\ UNCHANGED <<artifacts, canvas, uploadedBannerDataURL, config, ui>>

\* img.onerror = reject in loadImage: generateBanner rejects, generatePreview's
\* catch shows the message
BannerBackgroundError(t) ==
    /\ t \in BagToSet(pending)
    /\ t.op = "bannerBackground"
    /\ pending' = Remove(pending, t)
    /\ lastEvent' = Event("generateBanner", "rejected")
    /\ UNCHANGED <<artifacts, canvas, uploadedBannerDataURL, config, ui, blobURLs>>

\* the SVG image has loaded: the logo is drawn, the URL revoked, the canvas
\* stored; generatePreview shows it and enables #toStep3
BannerLogoLoad(t) ==
    /\ t \in BagToSet(pending)
    /\ t.op = "bannerLogo"
    /\ canvas' = Some(drawLogoImage(t.canvas, config, t.svg, SvgImage(t.svg)))
    /\ blobURLs' = blobURLs - 1
    /\ ui' = [ui EXCEPT !.toStep3Disabled = FALSE]
    /\ pending' = Remove(pending, t)
    /\ lastEvent' = Event("generateBanner", "resolved")
    /\ UNCHANGED <<artifacts, uploadedBannerDataURL, config>>

BannerLogoErrorLeaking(t) ==
    /\ t \in BagToSet(pending)
    /\ t.op = "bannerLogo"
    /\ pending' = Remove(pending, t)
    /\ lastEvent' = Event("generateBanner", "rejected")
    /\ UNCHANGED <<artifacts, canvas, uploadedBannerDataURL, config, ui, blobURLs>>

\* the SVG image fails to load: finally revokes the URL, generateBanner rejects
BannerLogoError(t) ==
    /\ t \in BagToSet(pending)
    /\ t.op = "bannerLogo"
    /\ blobURLs' = blobURLs - 1
    /\ pending' = Remove(pending, t)
    /\ lastEvent' = Event("generateBanner", "rejected")
    /\ UNCHANGED <<artifacts, canvas, uploadedBannerDataURL, config, ui>>

-----------------------------------------------------------------------------
(* UIController: the controls that write the shared config, and the step   *)
(* navigation.                                                             *)

PickerColors == {"#ff0000"}
SliderThresholds == {5, 7}
Modes == {"create", "upload"}

\* #logoColor input
SetLogoColor(c) ==
    /\ config.logoColor # c
    /\ config' = [config EXCEPT !.logoColor = c]
    /\ lastEvent' = Event("control", "done")
    /\ UNCHANGED <<artifacts, canvas, uploadedBannerDataURL, ui, pending, blobURLs>>

\* #threshold input
SetThreshold(t) ==
    /\ config.threshold # t
    /\ config' = [config EXCEPT !.threshold = t]
    /\ lastEvent' = Event("control", "done")
    /\ UNCHANGED <<artifacts, canvas, uploadedBannerDataURL, ui, pending, blobURLs>>

Texts == {"", "Hi"}

\* #txt input
SetText(txt) ==
    /\ config.text # txt
    /\ config' = [config EXCEPT !.text = txt]
    /\ lastEvent' = Event("control", "done")
    /\ UNCHANGED <<artifacts, canvas, uploadedBannerDataURL, ui, pending, blobURLs>>

\* the banner width typed into #w (the default is 1200)
BannerWidths == {800}

\* #w input: this.config.w = +e.target.value
SetWidth(w) ==
    /\ config.w # w
    /\ config' = [config EXCEPT !.w = w]
    /\ lastEvent' = Event("control", "done")
    /\ UNCHANGED <<artifacts, canvas, uploadedBannerDataURL, ui, pending, blobURLs>>

\* #modeCreate / #modeUpload click: setMode(mode)
SetMode(m) ==
    /\ config' = [config EXCEPT !.mode = m]
    /\ lastEvent' = Event("control", "done")
    /\ UNCHANGED <<artifacts, canvas, uploadedBannerDataURL, ui, pending, blobURLs>>

\* click on a step header: canNavigateToStep(n) is true for every n, setStep(n)
ClickStepHeader(n) ==
    /\ ui' = [ui EXCEPT !.step = n]
    /\ lastEvent' = Event("control", "done")
    /\ UNCHANGED <<artifacts, canvas, uploadedBannerDataURL, config, pending, blobURLs>>

\* click on #toStep2
ClickToStep2 ==
    /\ ~ui.toStep2Disabled
    /\ ui' = [ui EXCEPT !.step = 2]
    /\ lastEvent' = Event("control", "done")
    /\ UNCHANGED <<artifacts, canvas, uploadedBannerDataURL, config, pending, blobURLs>>

\* click on #toStep3: only with a stored canvas (getDataURL() is not null)
ClickToStep3 ==
    /\ ~ui.toStep3Disabled
    /\ ui' = IF canvas # Null THEN [ui EXCEPT !.step = 3] ELSE ui
    /\ lastEvent' = Event("control", "done")
    /\ UNCHANGED <<artifacts, canvas, uploadedBannerDataURL, config, pending, blobURLs>>

-----------------------------------------------------------------------------------------------------------------------------------------------------
(* The whole system: logo pipeline, banner upload and banner composition.  *)

Next ==
    \/ \E f \in ComposeLogoFiles : HandleLogoFile(f)
    \/ \E t \in BagToSet(pending) : FileReaderLoad(t)
    \/ \E t \in BagToSet(pending) : FileReaderError(t)
    \/ \E t \in BagToSet(pending) : LogoImageLoad(t)
    \/ \E t \in BagToSet(pending) : LogoImageError(t)
    \/ \E t \in BagToSet(pending) : ExtractColorLoad(t)
    \/ \E t \in BagToSet(pending) : ExtractColorError(t)
    \/ ClickConvertBitmap
    \/ \E t \in BagToSet(pending) : BitmapImageLoad(t)
    \/ \E t \in BagToSet(pending) : BitmapImageError(t)
    \/ ClickVectorize
    \/ \E t \in BagToSet(pending) : VectorizeImageLoad(t)
    \/ \E t \in BagToSet(pending) : VectorizeImageError(t)
    \/ \E f \in BannerFiles : HandleBannerFile(f)
    \/ \E t \in BagToSet(pending) : BannerReaderLoad(t)
    \/ \E t \in BagToSet(pending) : BannerImageLoad(t)
    \/ \E t \in BagToSet(pending) : BannerLoadError(t)
    \/ \E m \in Modes : SetMode(m)
    \/ GeneratePreview
    \/ \E t \in BagToSet(pending) : BannerBackgroundLoad(t)
    \/ \E t \in BagToSet(pending) : BannerBackgroundError(t)
    \/ \E t \in BagToSet(pending) : BannerLogoLoad(t)
    \/ \E t \in BagToSet(pending) : BannerLogoError(t)

Spec == Init /\ [][Next]_vars

-----------------------------------------------------------------------------
(* The logo pipeline alone, with two logos of different sizes and the      *)
(* colour picker.                                                          *)

NextLogo ==
    \/ \E f \in Files : HandleLogoFile(f)
    \/ \E t \in BagToSet(pending) : FileReaderLoad(t)
    \/ \E t \in BagToSet(pending) : FileReaderError(t)
    \/ \E t \in BagToSet(pending) : LogoImageLoad(t)
    \/ \E t \in BagToSet(pending) : LogoImageError(t)
    \/ \E t \in BagToSet(pending) : ExtractColorLoad(t)
    \/ \E t \in BagToSet(pending) : ExtractColorError(t)
    \/ ClickConvertBitmap
    \/ \E t \in BagToSet(pending) : BitmapImageLoad(t)
    \/ \E t \in BagToSet(pending) : BitmapImageError(t)
    \/ ClickVectorize
    \/ \E t \in BagToSet(pending) : VectorizeImageLoad(t)
    \/ \E t \in BagToSet(pending) : VectorizeImageError(t)
    \/ \E c \in PickerColors : SetLogoColor(c)

SpecLogo == Init /\ [][NextLogo]_vars

-----------------------------------------------------------------------------
(* LogoProcessor as the class exports it: loadLogo, convertToBitmap,       *)
(* vectorize and createVectorWithHoles called in any order by any caller,  *)
(* so also before the step each of them needs has run.                     *)

DecodableLogoFiles == {LogoA, LogoB}
CallerSizes == {<<1, 1>>}

NextProcessor ==
    \/ \E f \in DecodableLogoFiles : HandleLogoFile(f)
    \/ \E t \in BagToSet(pending) : FileReaderLoad(t)
    \/ \E t \in BagToSet(pending) : LogoImageLoad(t)
    \/ \E t \in BagToSet(pending) : ExtractColorLoad(t)
    \/ \E th \in SliderThresholds : CallConvertToBitmap(th)
    \/ \E t \in BagToSet(pending) : BitmapImageLoad(t)
    \/ \E t \in BagToSet(pending) : BitmapImageError(t)
    \/ \E c \in PickerColors : CallVectorize(c)
    \/ \E t \in BagToSet(pending) : VectorizeImageLoad(t)
    \/ \E t \in BagToSet(pending) : VectorizeImageError(t)
    \/ \E c \in PickerColors, d \in CallerSizes :
           CallCreateVectorWithHoles(c, d[1], d[2])

SpecProcessor == Init /\ [][NextProcessor]_vars

-----------------------------------------------------------------------------
(* Banner composition.  Vectorized(logo, size, pct, pos) is the state      *)
(* after the logo has been loaded, converted at the default threshold and  *)
(* vectorized, with the banner size, the logo size and the anchor set by   *)
(* the controls of step 2.                                                 *)

Vectorized(logo, size, pct, pos) ==
    LET mask == BitmapOf(logo, DefaultConfig.threshold)
        color == extractDominantColor(logo)
    IN  /\ originalDataURL = Some(clampImageToMax(logo, MaxLogoSide))
        /\ processedDataURL = originalDataURL
        /\ bitmapDataURL = Some(mask)
        /\ vectorSVGContent =
               Some([w |-> mask.w, h |-> mask.h, href |-> mask, fill |-> color])
        /\ canvas = Null
        /\ uploadedBannerDataURL = Null
        /\ config = [DefaultConfig EXCEPT !.logoColor = color,
                                          !.w = size[1], !.h = size[2],
                                          !.logoSizePct = pct,
                                          !.logoPos = pos]
        /\ ui = [InitialUI EXCEPT !.logoToolsShown = TRUE,
                                  !.btnVectorizeDisabled = FALSE,
                                  !.btnDownloadSVGLogoDisabled = FALSE,
                                  !.toStep2Disabled = FALSE]
        /\ pending = EmptyBag
        /\ blobURLs = 0
        /\ lastEvent = Event("vectorize", "resolved")

(* The banner dynamics: from the vectorized logo a.png with the default    *)
(* config, the banner text, the mode, banner uploads and previews.         *)

UploadedBanners == {LogoB}

InitBanner ==
    Vectorized(LogoA.img, <<DefaultConfig.w, DefaultConfig.h>>,
               DefaultConfig.logoSizePct, DefaultConfig.logoPos)

NextBanner ==
    \/ \E txt \in Texts : SetText(txt)
    \/ \E m \in Modes : SetMode(m)
    \/ \E f \in UploadedBanners : HandleBannerFile(f)
    \/ \E t \in BagToSet(pending) : BannerReaderLoad(t)
    \/ \E t \in BagToSet(pending) : BannerImageLoad(t)
    \/ \E t \in BagToSet(pending) : BannerLoadError(t)
    \/ GeneratePreview
    \/ \E t \in BagToSet(pending) : BannerBackgroundLoad(t)
    \/ \E t \in BagToSet(pending) : BannerBackgroundError(t)
    \/ \E t \in BagToSet(pending) : BannerLogoLoad(t)
    \/ \E t \in BagToSet(pending) : BannerLogoError(t)

SpecBanner == InitBanner /\ [][NextBanner]_vars

(* The banner dynamics with the width control in addition: the config a   *)
(* generateBanner run reads can change in size while the run is suspended. *)

NextResize ==
    \/ NextBanner
    \/ \E w \in BannerWidths : SetWidth(w)

SpecResize == InitBanner /\ [][NextResize]_vars

(* calculateLogoPosition as a function of its inputs: logos of several     *)
(* aspect ratios, banner sizes, logo sizes and all anchors; then previews  *)
(* on the template background.                                             *)

LayoutLogos == {LogoA.img, LogoB.img, Image(1, 1, Black),
                Image(3, 1, Black \o White \o Black)}
LayoutSizes == {<<1200, 630>>, <<800, 400>>, <<728, 90>>, <<1, 1>>}
LayoutPcts == {0, 1, 25, 33, 50, 100}

InitLayout ==
    \E logo \in LayoutLogos, size \in LayoutSizes,
       pct \in LayoutPcts, pos \in Anchors :
        Vectorized(logo, size, pct, pos)

NextLayout ==
    \/ GeneratePreview
    \/ \E t \in BagToSet(pending) : BannerLogoLoad(t)
    \/ \E t \in BagToSet(pending) : BannerLogoError(t)

SpecLayout == InitLayout /\ [][NextLayout]_vars

-----------------------------------------------------------------------------
(* extractDominantColor as a function of its input: loadLogo has stored a  *)
(* logo and the image of extractDominantColor is loading.  The loop reads  *)
(* one pixel in four (i += 16 over RGBA bytes); the logos have up to       *)
(* MaxSamples pixels that are read, each of any of ColorSamples, and green *)
(* pixels between them, or are the logo of the scenario: ten pixels read,  *)
(* nine near-white and one blue at any place.                              *)

MaxSamples == 4

Blue == <<0, 0, 255, 255>>
Green == <<0, 255, 0, 255>>
ColorSamples == {Blue, <<0, 0, 255, 127>>, <<4, 4, 255, 128>>, NearWhite,
                 Black, <<244, 250, 250, 255>>}

\* the image of one row whose pixels 0, 4, 8, ... are px[1], px[2], ...
Strided(px) ==
    Image(4 * Len(px), 1,
          [k \in 1..(16 * Len(px)) |->
              LET p == (k - 1) \div 4
                  ch == ((k - 1) % 4) + 1
              IN  IF p % 4 = 0 THEN px[(p \div 4) + 1][ch] ELSE Green[ch]])

ScenarioImages ==
    {Strided([k \in 1..10 |-> IF k = at THEN Blue ELSE NearWhite]) : at \in 1..10}

ColorImages ==
    UNION {{Strided(px) : px \in [1..n -> ColorSamples]} : n \in 1..MaxSamples}
    \cup ScenarioImages

InitColor ==
    \E img \in ColorImages :
        /\ originalDataURL = Some(img)
        /\ processedDataURL = Some(img)
        /\ bitmapDataURL = Null
        /\ vectorSVGContent = Null
        /\ canvas = Null
        /\ uploadedBannerDataURL = Null
        /\ config = DefaultConfig
        /\ ui = InitialUI
        /\ pending = SetToBag({[op |-> "extractColor", src |-> img]})
        /\ blobURLs = 0
        /\ lastEvent = Event("loadLogo", "resolved")

NextColor ==
    \/ \E t \in BagToSet(pending) : ExtractColorLoad(t)
    \/ \E t \in BagToSet(pending) : ExtractColorError(t)

SpecColor == InitColor /\ [][NextColor]_vars

-----------------------------------------------------------------------------
(* Step navigation: one logo taken through the pipeline to a banner        *)
(* preview, with the step headers and the buttons #toStep2 and #toStep3    *)
(* clicked at any moment.                                                  *)

Steps == {1, 2, 3}

NextNavigate ==
    \/ HandleLogoFile(LogoA)
    \/ \E t \in BagToSet(pending) : FileReaderLoad(t)
    \/ \E t \in BagToSet(pending) : LogoImageLoad(t)
    \/ \E t \in BagToSet(pending) : ExtractColorLoad(t)
    \/ ClickConvertBitmap
    \/ \E t \in BagToSet(pending) : BitmapImageLoad(t)
    \/ ClickVectorize
    \/ \E t \in BagToSet(pending) : VectorizeImageLoad(t)
    \/ GeneratePreview
    \/ \E t \in BagToSet(pending) : BannerLogoLoad(t)
    \/ \E n \in Steps : ClickStepHeader(n)
    \/ ClickToStep2
    \/ ClickToStep3

SpecNavigate == Init /\ [][NextNavigate]_vars

-----------------------------------------------------------------------------
(* loadLogo as a function of the size of its input: one logo file of any   *)
(* of the sizes below has been chosen and is being read; then loadLogo     *)
(* runs to its end.  The sizes lie around the 800 limit and around the     *)
(* ratio 1600:1, where the shorter side scales to half a pixel.            *)

ClampLongSides == {1, 2, 3, 799, 800, 801, 802, 1000, 1200, 1599, 1600, 1601, 2000}
ClampShortSides == {1, 2, 3}
ClampInputSizes ==
    (ClampLongSides \X ClampShortSides) \cup (ClampShortSides \X ClampLongSides)

\* a PNG of the given size, every pixel opaque red
SizedLogo(w, h) ==
    [name |-> "sized.png", type |-> "image/png", decodable |-> TRUE,
     img |-> Image(w, h, [k \in 1..(4 * w * h) |-> Red[((k - 1) % 4) + 1]])]

InitClamp ==
    \E d \in ClampInputSizes :
        /\ originalDataURL = Null
        /\ processedDataURL = Null
        /\ bitmapDataURL = Null
        /\ vectorSVGContent = Null
        /\ canvas = Null
        /\ uploadedBannerDataURL = Null
        /\ config = DefaultConfig
        /\ ui = InitialUI
        /\ pending = SetToBag({[op |-> "fileRead", file |-> SizedLogo(d[1], d[2])]})
        /\ blobURLs = 0
        /\ lastEvent = Event("loadLogo", "started")

NextClamp ==
    \/ \E t \in BagToSet(pending) : FileReaderLoad(t)
    \/ \E t \in BagToSet(pending) : LogoImageLoad(t)

SpecClamp == InitClamp /\ [][NextClamp]_vars

-----------------------------------------------------------------------------
(* convertToBitmap as a function of its input: the state after a logo      *)
(* decoding to any image of at most MaxPixels sample pixels has loaded,    *)
(* with the threshold slider at any value; then only conversions run.      *)

SampleColors == {<<0, 0, 0>>, <<255, 255, 255>>, <<255, 0, 0>>,
                 <<0, 255, 0>>, <<0, 255, 255>>}
SampleAlphas == {63, 64, 255}
SamplePixels == {c \o <<a>> : c \in SampleColors, a \in SampleAlphas}

RECURSIVE Flatten(_)
Flatten(pixels) ==
    IF pixels = <<>> THEN <<>> ELSE Head(pixels) \o Flatten(Tail(pixels))

InputImages ==
    UNION {{Image(w, h, Flatten(px)) :
                px \in [1..(w * h) -> SamplePixels]} :
           <<w, h>> \in {d \in (1..MaxPixels) \X (1..MaxPixels) :
                            d[1] * d[2] <= MaxPixels}}

InitBitmap ==
    \E img \in InputImages, th \in Thresholds :
        /\ originalDataURL = Some(img)
        /\ processedDataURL = Some(img)
        /\ bitmapDataURL = Null
        /\ vectorSVGContent = Null
        /\ canvas = Null
        /\ uploadedBannerDataURL = Null
        /\ config = [DefaultConfig EXCEPT !.threshold = th,
                                          !.logoColor = extractDominantColor(img)]
        /\ ui = [InitialUI EXCEPT !.logoToolsShown = TRUE]
        /\ pending = EmptyBag
        /\ blobURLs = 0
        /\ lastEvent = Event("extractDominantColor", "resolved")

NextBitmap ==
    \/ ClickConvertBitmap
    \/ \E t \in BagToSet(pending) : BitmapImageLoad(t)
    \/ \E t \in BagToSet(pending) : BitmapImageError(t)

SpecBitmap == InitBitmap /\ [][NextBitmap]_vars

-----------------------------------------------------------------------------
(* Properties of convertToBitmap, checked under SpecBitmap, where the      *)
(* stored processed image and the threshold never change: a stored bitmap  *)
(* is the conversion of processedDataURL at config.threshold.              *)

NumPixels(img) == Len(img.data) \div 4
PixelAt(img, p) ==
    <<img.data[4 * p + 1], img.data[4 * p + 2], img.data[4 * p + 3], img.data[4 * p + 4]>>
PixelsOf(img) == 0..(NumPixels(img) - 1)

IsBitmapMask(img) ==
    \A p \in PixelsOf(img) : PixelAt(img, p) \in {Black, White}

\* C1: every pixel of the bitmap convertToBitmap stores is exactly
\* (0,0,0,255) or (255,255,255,255), and the bitmap has one pixel per pixel
\* of its canvas.
C1_BitmapIsTwoColour ==
    bitmapDataURL # Null =>
        LET out == Get(bitmapDataURL)
        IN  /\ Len(out.data) = 4 * out.w * out.h
            /\ \A p \in PixelsOf(out) :
                   PixelAt(out, p) \in {<<0, 0, 0, 255>>, <<255, 255, 255, 255>>}

\* a conversion has completed on an image with a half-transparent pixel at
\* the alpha floor and one just below it
C1_Witness ==
    /\ bitmapDataURL # Null
    /\ \E p, q \in PixelsOf(Get(processedDataURL)) :
           /\ PixelAt(Get(processedDataURL), p)[4] = 64
           /\ PixelAt(Get(processedDataURL), q)[4] = 63

C3_Idempotent ==
    (bitmapDataURL # Null /\ IsBitmapMask(Get(processedDataURL)))
        => bitmapDataURL = processedDataURL

\* a mask with a black and a white pixel has been converted at threshold 1.0
C3_Witness ==
    /\ bitmapDataURL # Null
    /\ IsBitmapMask(Get(processedDataURL))
    /\ config.threshold = 10
    /\ \E p, q \in PixelsOf(Get(processedDataURL)) :
           /\ PixelAt(Get(processedDataURL), p) = Black
           /\ PixelAt(Get(processedDataURL), q) = White

-----------------------------------------------------------------------------
(* Properties of the logo pipeline, checked under SpecLogo.                *)

\* C4: loadLogo on a file whose declared type is none of image/png,
\* image/jpeg, image/jpg throws at once: the step changes none of the four
\* cached artifacts and starts nothing, and no read or decode of such a
\* file is ever in flight.
C4_UnsupportedTypeFailsFast ==
    /\ [][lastEvent' = Event("loadLogo", "throws")
            => UNCHANGED <<artifacts, pending>>]_vars
    /\ [](\A t \in BagToSet(pending) :
            t.op \in {"fileRead", "logoDecode"}
                => t.file.type \in {"image/png", "image/jpeg", "image/jpg"})

\* an unsupported file has just been refused while a vector is stored and
\* another operation is in flight
C4_Witness ==
    /\ lastEvent = Event("loadLogo", "throws")
    /\ vectorSVGContent # Null
    /\ pending # EmptyBag

\* C5: in the state a successful load leaves, original and processed both
\* hold the new (clamped) image and bitmap and vector are both null; and in
\* every state original and processed are the same image.
C5_LoadReplacesAll ==
    /\ originalDataURL = processedDataURL
    /\ lastEvent = Event("loadLogo", "resolved") =>
           /\ \E f \in Files :
                  /\ f.decodable
                  /\ originalDataURL = Some(clampImageToMax(f.img, 800))
           /\ bitmapDataURL = Null
           /\ vectorSVGContent = Null

\* a load has just succeeded over a session that had a vector (the
\* #toStep2 button it enabled has not been refreshed yet)
C5_Witness ==
    /\ lastEvent = Event("loadLogo", "resolved")
    /\ ~ui.toStep2Disabled

\* C6: a stored bitmap mask is a conversion of the stored processed image
\* (at some threshold), never of a previously loaded logo.
C6_BitmapOfCurrentLogo ==
    bitmapDataURL # Null =>
        /\ processedDataURL # Null
        /\ \E th \in Thresholds :
               Get(bitmapDataURL) = BitmapOf(Get(processedDataURL), th)

\* C7: with nothing in flight, a stored vector embeds the stored bitmap
\* mask and is filled with the currently selected colour.
C7_VectorIsCurrent ==
    (pending = EmptyBag /\ vectorSVGContent # Null) =>
        /\ bitmapDataURL = Some(Get(vectorSVGContent).href)
        /\ Get(vectorSVGContent).fill = SelectedFill(config)

\* C8: the viewBox of a stored vector has the pixel size of the bitmap it
\* embeds.
C8_ViewBoxIsMaskSize ==
    vectorSVGContent # Null =>
        /\ Get(vectorSVGContent).w = Get(vectorSVGContent).href.w
        /\ Get(vectorSVGContent).h = Get(vectorSVGContent).href.h

-----------------------------------------------------------------------------
(* Properties of the whole system, checked under Spec.                     *)

\* C9: a step in which an operation fails (a synchronous throw or a
\* rejection), and every step of an operation before its successful
\* completion, leaves original, processed, bitmap, vector and the stored
\* banner canvas as they were.
C9_FailureChangesNothing ==
    [][lastEvent'.result \in {"throws", "rejected", "started", "decoding",
                              "background drawn", "ignored"}
          => UNCHANGED <<artifacts, canvas>>]_vars

\* a banner composition has just failed with a banner and a vector stored
C9_Witness ==
    /\ lastEvent = Event("generateBanner", "rejected")
    /\ canvas # Null
    /\ vectorSVGContent # Null

PipelineOps == {"fileRead", "logoDecode", "bitmap", "vectorize",
                "bannerBackground", "bannerLogo"}

\* logo decodes, bitmap conversions, vectorizations, banner compositions in flight
PipelineInFlight ==
    BagCardinality([t \in {x \in BagToSet(pending) : x.op \in PipelineOps}
                       |-> pending[t]])

\* C10: at most one asynchronous pipeline step is in flight at any time.
C10_OneStepInFlight == PipelineInFlight <= 1

-----------------------------------------------------------------------------
(* Properties of LogoProcessor's own sequencing checks, under              *)
(* SpecProcessor.                                                          *)

\* bitmap decodes in flight
BitmapDecodes(bag) ==
    BagCardinality([t \in {x \in BagToSet(bag) : x.op = "bitmap"} |-> bag[t]])

\* C11: convertToBitmap called with no processed logo stored throws, starts
\* no image decode and leaves bitmap and vector as they were; and with no
\* processed logo stored no step starts a bitmap decode at all.
C11_NoSourceImage ==
    /\ [][lastEvent' = Event("convertToBitmap", "throws")
            => /\ processedDataURL = Null
               /\ UNCHANGED <<artifacts, pending>>]_vars
    /\ [][processedDataURL = Null
            => /\ BitmapDecodes(pending') <= BitmapDecodes(pending)
               /\ lastEvent' # Event("convertToBitmap", "started")]_vars

\* convertToBitmap has just thrown while a logo load is still in flight
C11_Witness ==
    /\ lastEvent = Event("convertToBitmap", "throws")
    /\ processedDataURL = Null
    /\ \E t \in BagToSet(pending) : t.op = "logoDecode"

\* C12: vectorize and createVectorWithHoles fail when no bitmap mask is
\* stored, at the call or at the image-load callback, and leave the vector
\* as it was; every step that stores a vector runs with a bitmap mask
\* stored, which the new vector embeds.
C12_NoMaskAvailable ==
    /\ [][(/\ bitmapDataURL = Null
           /\ lastEvent'.op \in {"vectorize", "createVectorWithHoles"})
            => /\ lastEvent'.result \in {"throws", "rejected"}
               /\ UNCHANGED vectorSVGContent]_vars
    /\ [][(vectorSVGContent' # vectorSVGContent /\ vectorSVGContent' # Null)
            => /\ bitmapDataURL # Null
               /\ bitmapDataURL' = bitmapDataURL
               /\ Get(vectorSVGContent').href = Get(bitmapDataURL)]_vars

\* a vectorize that was started on a bitmap has just been rejected at its
\* callback, because a logo load has reset the bitmap in between
C12_Witness ==
    /\ lastEvent = Event("vectorize", "rejected")
    /\ bitmapDataURL = Null
    /\ processedDataURL # Null

-----------------------------------------------------------------------------
(* Properties of banner composition, under SpecBanner.                     *)

\* C13: with nothing in flight, the banner available for export is the one
\* composed from the current config, the current vector and the current
\* uploaded background.
C13_BannerIsCurrent ==
    (pending = EmptyBag /\ getDataURL # Null) =>
        /\ vectorSVGContent # Null
        /\ Get(getDataURL) = generateBanner(config, Get(vectorSVGContent),
                                            uploadedBannerDataURL)

DrawRank(op) ==
    CASE op = "background" -> 1
      [] op = "text" -> 2
      [] op = "logo" -> 3

\* the drawing calls made so far: background first, then at most one text,
\* then at most one logo
InDrawOrder(ops) ==
    /\ \A i, j \in 1..Len(ops) :
           i < j => DrawRank(ops[i].op) < DrawRank(ops[j].op)
    /\ ops # <<>> => ops[1].op = "background"

\* C14: on every canvas, stored or still being drawn, the drawing calls are
\* in the order background, text (if any), logo: while the uploaded
\* background is loading nothing has been drawn, while the logo image is
\* loading the background (and text) are drawn and the logo is not, and a
\* stored banner starts with its background and ends with its logo.
C14_DrawOrder ==
    /\ canvas # Null =>
           LET ops == Get(canvas).ops
           IN  InDrawOrder(ops) /\ ops # <<>> /\ ops[Len(ops)].op = "logo"
    /\ \A t \in BagToSet(pending) :
           /\ t.op = "bannerBackground" => t.canvas.ops = <<>>
           /\ t.op = "bannerLogo" =>
                  /\ InDrawOrder(t.canvas.ops)
                  /\ t.canvas.ops # <<>>
                  /\ \A i \in 1..Len(t.canvas.ops) : t.canvas.ops[i].op # "logo"

\* a banner with an uploaded background, a text and the logo is stored
C14_Witness ==
    /\ canvas # Null
    /\ Len(Get(canvas).ops) = 3
    /\ Get(canvas).ops[1].kind = "upload"
    /\ Get(canvas).ops[2].op = "text"

\* runs of drawLogo suspended on their image load
LogoLoads == {t \in BagToSet(pending) : t.op = "bannerLogo"}

\* C15: the live blob URLs are exactly those of the runs of drawLogo whose
\* image load is still pending, one each: when a load finishes, with onload
\* or with onerror, its URL is revoked in the same step, and with no
\* drawLogo in flight none is live.
C15_BlobUrlRevoked ==
    blobURLs = BagCardinality([t \in LogoLoads |-> pending[t]])

\* a drawLogo has just failed on the template background (no upload exists
\* whose load could have failed instead) and nothing is in flight
C15_Witness ==
    /\ lastEvent = Event("generateBanner", "rejected")
    /\ uploadedBannerDataURL = Null
    /\ canvas # Null
    /\ pending = EmptyBag
    /\ blobURLs = 0

-----------------------------------------------------------------------------
(* Properties of handleLogoFile's colour extraction, under SpecLogo.       *)

\* a handleLogoFile run that has not reached its end
LoadInFlight ==
    \E t \in BagToSet(pending) : t.op \in {"fileRead", "logoDecode", "extractColor"}

\* C16: once no load is in flight any more, a stored logo has its tools and
\* preview shown, also when the colour extraction of its load failed.
C16_LoadCompletes ==
    (processedDataURL # Null /\ ~LoadInFlight) => ui.logoToolsShown

-----------------------------------------------------------------------------
(* Properties of clampImageToMax as loadLogo uses it, under SpecClamp.     *)

\* the step in which loadLogo stores the decoded image of file f
Stores(f) ==
    /\ [op |-> "logoDecode", file |-> f] \in BagToSet(pending)
    /\ lastEvent' = Event("loadLogo", "resolved")

\* C17: an input whose longer side exceeds 800 is stored with its longer
\* side exactly 800 and its shorter side within 1 pixel of
\* shorter * 800 / longer.
C17_ClampedTo800 ==
    [][\A d \in ClampInputSizes :
          (Stores(SizedLogo(d[1], d[2])) /\ Max(d[1], d[2]) > 800) =>
              LET out == Get(processedDataURL')
                  long == Max(d[1], d[2])
                  outLong == IF d[1] >= d[2] THEN out.w ELSE out.h
                  outShort == IF d[1] >= d[2] THEN out.h ELSE out.w
                  short == IF d[1] >= d[2] THEN d[2] ELSE d[1]
              IN  /\ outLong = 800
                  /\ Abs(outShort * long - short * 800) <= long]_vars

\* C18: an input whose longer side is at most 800 is stored with exactly
\* its own width and height.
C18_SmallKeptAsIs ==
    [][\A d \in ClampInputSizes :
          (Stores(SizedLogo(d[1], d[2])) /\ Max(d[1], d[2]) <= 800) =>
              /\ Get(processedDataURL').w = d[1]
              /\ Get(processedDataURL').h = d[2]
              /\ originalDataURL' = processedDataURL']_vars

\* a 3 x 799 logo has been stored: a downscaled one would be 800 long
C18_Witness ==
    /\ lastEvent = Event("loadLogo", "resolved")
    /\ Get(processedDataURL).w = 3
    /\ Get(processedDataURL).h = 799

-----------------------------------------------------------------------------
(* Properties of calculateLogoPosition, under SpecLayout, where the config *)
(* a banner was drawn from is the config of the state.  LogoDrawn is the   *)
(* drawImage call of the stored banner's logo.                             *)

LogoDrawn == Get(canvas).ops[Len(Get(canvas).ops)]

\* C19: the logo is drawn no wider than canvasW * logoSizePct / 100 and no
\* higher than canvasH * logoSizePct / 100 (and with no negative side).
C19_LogoWithinBounds ==
    canvas # Null =>
        LET width == LogoDrawn.width
            height == LogoDrawn.height
        IN  /\ width[1] >= 0 /\ width[2] > 0
            /\ height[1] >= 0 /\ height[2] > 0
            /\ width[1] * 100 <= config.w * config.logoSizePct * width[2]
            /\ height[1] * 100 <= config.h * config.logoSizePct * height[2]

\* a logo higher than wide was fitted by its height: it is as high as the
\* bound and narrower than the bound
C19_Witness ==
    /\ canvas # Null
    /\ config.logoSizePct = 33
    /\ LogoDrawn.height[1] * 100 = config.h * 33 * LogoDrawn.height[2]
    /\ LogoDrawn.width[1] * 100 < config.w * 33 * LogoDrawn.width[2]

\* C20: with the anchor 'center' the logo is drawn at
\* x = (canvasW - width) / 2 and y = (canvasH - height) / 2 for the width
\* and height it is drawn with.
C20_CenterAnchor ==
    (canvas # Null /\ config.logoPos = "center") =>
        LET x == LogoDrawn.x
            y == LogoDrawn.y
            width == LogoDrawn.width
            height == LogoDrawn.height
        IN  /\ 2 * x[1] * width[2] = (config.w * width[2] - width[1]) * x[2]
            /\ 2 * y[1] * height[2] = (config.h * height[2] - height[1]) * y[2]

\* a centred logo whose height differs from its width was drawn at a
\* fractional position
C20_Witness ==
    /\ canvas # Null
    /\ config.logoPos = "center"
    /\ LogoDrawn.width # LogoDrawn.height
    /\ LogoDrawn.y[2] # 1

\* the anchors by column and by row, as the cases of the switch name them
LeftAnchors == {"left-top", "left-middle", "left-bottom"}
RightAnchors == {"right-top", "right-middle", "right-bottom"}
CentredAnchors == {"top-middle", "center", "bottom-middle"}
TopAnchors == {"left-top", "top-middle", "right-top"}
BottomAnchors == {"left-bottom", "bottom-middle", "right-bottom"}
MiddleAnchors == {"left-middle", "center", "right-middle"}

\* C21: for each of the nine anchors x depends on the column only (20 at the
\* left, canvasW - width - 20 at the right, (canvasW - width) / 2 in the
\* centre) and y on the row only (20 at the top, canvasH - height - 20 at the
\* bottom, (canvasH - height) / 2 in the middle).
C21_AxesIndependent ==
    canvas # Null =>
        LET x == LogoDrawn.x
            y == LogoDrawn.y
            width == LogoDrawn.width
            height == LogoDrawn.height
            pos == config.logoPos
        IN  /\ pos \in LeftAnchors \cup RightAnchors \cup CentredAnchors
            /\ pos \in TopAnchors \cup BottomAnchors \cup MiddleAnchors
            /\ pos \in LeftAnchors => x[1] = 20 * x[2]
            /\ pos \in RightAnchors =>
                  x[1] * width[2] = (config.w * width[2] - width[1] - 20 * width[2]) * x[2]
            /\ pos \in CentredAnchors =>
                  2 * x[1] * width[2] = (config.w * width[2] - width[1]) * x[2]
            /\ pos \in TopAnchors => y[1] = 20 * y[2]
            /\ pos \in BottomAnchors =>
                  y[1] * height[2] = (config.h * height[2] - height[1] - 20 * height[2]) * y[2]
            /\ pos \in MiddleAnchors =>
                  2 * y[1] * height[2] = (config.h * height[2] - height[1]) * y[2]

\* a logo of a third of a 1200 x 630 canvas was drawn at the right-bottom
C21_Witness ==
    /\ canvas # Null
    /\ config.logoPos = "right-bottom"
    /\ config.w = 1200 /\ config.h = 630
    /\ config.logoSizePct = 33
    /\ LogoDrawn.x[1] > 0 /\ LogoDrawn.y[1] > 0

-----------------------------------------------------------------------------
(* Properties of generateBanner when the config changes during a run,      *)
(* under SpecResize.                                                       *)

\* the canvases of the runs of generateBanner in flight, and the stored one
Canvases ==
    {t.canvas : t \in {u \in BagToSet(pending) :
                          u.op \in {"bannerBackground", "bannerLogo"}}}
    \cup (IF canvas = Null THEN {} ELSE {Get(canvas)})

\* C22: a canvas that has been drawn on starts with exactly one background,
\* which covers the rectangle (0, 0, canvasW, canvasH) of that canvas: the
\* uploaded image stretched to it, or one of the generated backgrounds
\* solid, gradient and pattern.
C22_BackgroundFillsCanvas ==
    \A c \in Canvases :
        c.ops # <<>> =>
            /\ c.ops[1].op = "background"
            /\ \A i \in 2..Len(c.ops) : c.ops[i].op # "background"
            /\ c.ops[1].kind \in {"upload", "solid", "gradient", "pattern"}
            /\ c.ops[1].w = c.w
            /\ c.ops[1].h = c.h

-----------------------------------------------------------------------------
(* Properties of extractDominantColor, under SpecColor.  The buckets are   *)
(* stated here from the pixels, without the loops of the code.             *)

\* the pixels the loop reads (0, 4, 8, ...) and, of them, those it counts
SampledPixels(img) == {p \in 0..((Len(img.data) \div 4) - 1) : p % 4 = 0}
CountedPixels(img) == {p \in SampledPixels(img) : img.data[4 * p + 4] >= 128}

\* the multiple of 10 nearest to v, the upper one when v lies halfway
Nearest10(v) == CHOOSE m \in {10 * k : k \in 0..26} : m - 5 <= v /\ v <= m + 4

BucketOf(img, p) ==
    <<Nearest10(img.data[4 * p + 1]), Nearest10(img.data[4 * p + 2]),
      Nearest10(img.data[4 * p + 3])>>

\* the buckets that can win: those not near-white
QualifyingBuckets(img) ==
    {b \in {BucketOf(img, p) : p \in CountedPixels(img)} :
        ~(b[1] > 240 /\ b[2] > 240 /\ b[3] > 240)}

BucketPixels(img, b) == {p \in CountedPixels(img) : BucketOf(img, p) = b}
FirstSeen(img, b) == CHOOSE p \in BucketPixels(img, b) : \A q \in BucketPixels(img, b) : p <= q

\* the qualifying bucket with the most pixels, the first seen among equals
WinningBucket(img) ==
    CHOOSE b \in QualifyingBuckets(img) :
        \A c \in QualifyingBuckets(img) :
            \/ Cardinality(BucketPixels(img, b)) > Cardinality(BucketPixels(img, c))
            \/ /\ Cardinality(BucketPixels(img, b)) = Cardinality(BucketPixels(img, c))
               /\ FirstSeen(img, b) <= FirstSeen(img, c)

ColorExtracted == lastEvent = Event("extractDominantColor", "resolved")

\* C23: extractDominantColor counts the sampled pixels with alpha >= 128 by
\* bucket (each channel rounded to the nearest multiple of 10), leaves out
\* the buckets with all three channels above 240, and returns the hex
\* string of the bucket with the most pixels, the first seen on a tie, or
\* "#1d4ed8" when no bucket qualifies.
C23_DominantBucket ==
    ColorExtracted =>
        LET img == Get(processedDataURL)
        IN  config.logoColor =
                IF QualifyingBuckets(img) = {} THEN "#1d4ed8"
                ELSE RgbToHex(WinningBucket(img))

\* two buckets tie with two pixels each, and the one seen first has won
C23_Witness ==
    /\ ColorExtracted
    /\ Get(processedDataURL) =
           Strided(<<Black, (<<244, 250, 250, 255>>),
                     (<<244, 250, 250, 255>>), Black>>)
    /\ config.logoColor = "#000000"

\* C24: for an opaque logo whose sampled pixels are nine tenths near-white
\* (250, 250, 250) and one tenth pure blue (0, 0, 255), extractDominantColor
\* returns pure blue, "#0000ff".
C24_BlueNotWhite ==
    (ColorExtracted /\ Get(processedDataURL) \in ScenarioImages) =>
        config.logoColor = "#0000ff"

\* C26: extractDominantColor returns a '#' followed by exactly six hex
\* digits.  What it returns is always a '#' followed by the hex digits of
\* three channels, two or more each, so it is well formed exactly when it
\* has seven characters.
C26_WellFormedColour ==
    ColorExtracted => Len(config.logoColor) = 7

-----------------------------------------------------------------------------
(* Property of the step navigation, under SpecNavigate.                    *)

\* C25: a step other than the first is entered only with a vector created,
\* and the third only with a banner stored, by the buttons and by the step
\* headers alike.
C25_NoStepSkipped ==
    [][(ui'.step # ui.step /\ ui'.step >= 2) =>
           /\ vectorSVGContent # Null
           /\ ui'.step = 3 => canvas # Null]_vars

-----------------------------------------------------------------------------
(* Property of overlapping and interrupted runs of generateBanner, under   *)
(* SpecResize.                                                             *)

\* the values the config can have under SpecResize in what generateBanner
\* reads: the width 1200, 800 or that of the uploaded banner, the height
\* 630 or that of the uploaded banner, the text and the mode
SnapshotConfigs ==
    {[config EXCEPT !.w = w, !.h = h, !.text = txt, !.mode = m] :
        w \in {DefaultConfig.w} \cup BannerWidths \cup {f.img.w : f \in UploadedBanners},
        h \in {DefaultConfig.h} \cup {f.img.h : f \in UploadedBanners},
        txt \in Texts, m \in Modes}

\* the stored banner is the banner of one config: some single config, with
\* an uploaded background or none, gives exactly its size and its drawing
\* calls
OneSnapshot ==
    canvas # Null =>
        \E cfg \in SnapshotConfigs :
            \E uploaded \in {Null} \cup {Some(f.img) : f \in UploadedBanners} :
                Get(canvas) = generateBanner(cfg, LogoDrawn.svg, uploaded)

\* Under SpecResize the config never returns to its initial width, so a
\* banner of that width comes from a run started before the run of any
\* banner of another width.  The stored banner of a later run is not
\* replaced by the banner of an earlier run that overlapped it.
LastStartedWins ==
    (canvas # Null /\ canvas' # canvas /\ Get(canvas).w # DefaultConfig.w)
        => Get(canvas').w # DefaultConfig.w

\* C27: every stored banner is drawn from one snapshot of the config, also
\* when controls change the config while generateBanner is suspended, and
\* of two overlapping runs the one started last leaves its banner stored
\* (OneSnapshot in every state a step is taken from, LastStartedWins in
\* every step).
C27_ConsistentBanner == [][OneSnapshot /\ LastStartedWins]_vars

====
